---- MODULE Spec2Model ----
(***************************************************************************)
(* Model of the file query object (crates/turborepo-lib/src/query/file.rs) *)
(* and of the TUI preferences store                                        *)
(* (crates/turborepo-ui/src/tui/preferences.rs).                           *)
(*                                                                         *)
(* Four independent state machines share the module:                       *)
(*   TraceSpec   File::dependencies driving the import tracer              *)
(*   MapperSpec  File::get_package / File::package / affected_packages     *)
(*   ParseSpec   File::parse_file / File::ast                              *)
(*   PrefSpec    Preferences::update_preference / get_selected_task_index  *)
(* Each specification leaves the variables of the others untouched.        *)
(***************************************************************************)
EXTENDS Integers, Sequences, FiniteSets, TLC

\* ---------------------------------------------------------------------------
\* Bounds
\* ---------------------------------------------------------------------------
NumFiles == 3
MaxImports == 2
MaxDepth == 2
NumPkgs == 3
MaxNameLen == 3
NumTasks == 2

\* ---------------------------------------------------------------------------
\* Generic helpers
\* ---------------------------------------------------------------------------
\* Option<T>: None is the empty tuple, Some(x) the one-element tuple.
None == <<>>

Some(x) == <<x>>

Range(s) == {s[i] : i \in 1..Len(s)}

\* All orders in which the elements of a set can be iterated (HashMap/HashSet
\* iteration order is unspecified).
Orders(S) == {s \in [1..Cardinality(S) -> S] : \A i, j \in 1..Cardinality(S) : i # j => s[i] # s[j]}

RECURSIVE InsertSorted(_, _)
InsertSorted(x, s) ==
    IF s = <<>> THEN <<x>>
    ELSE IF x < Head(s) THEN <<x>> \o s
    ELSE <<Head(s)>> \o InsertSorted(x, Tail(s))

\* Stable sort by ascending key; equal keys are both kept.
RECURSIVE SortAscending(_)
SortAscending(s) == IF s = <<>> THEN <<>> ELSE InsertSorted(s[Len(s)], SortAscending(SubSeq(s, 1, Len(s) - 1)))

IsSorted(s) == \A i \in 1..(Len(s) - 1) : s[i] <= s[i + 1]

NoDuplicates(s) == \A i, j \in 1..Len(s) : i # j => s[i] # s[j]

\* ---------------------------------------------------------------------------
\* Import tracer: File::dependencies
\* ---------------------------------------------------------------------------
Files == 1..NumFiles

Depths == {None} \cup {Some(k) : k \in 0..MaxDepth}

VARIABLES
    graph,       \* file -> set of files its import specifiers resolve to
    seed,        \* self.path of the File dependencies is called on
    depth,       \* the `depth` argument of that call
    tpc,         \* "idle" | "tracing" | "done"
    traceDepth,  \* max_depth handed to Tracer::trace
    stack,       \* the tracer's work list of <<file, depth>>
    seen,        \* the tracer's visited set
    parseCount,  \* file -> number of times the tracer parsed it
    requeued,    \* TRUE once an already visited path was pushed again
    files        \* TraceResult.files returned to the caller (paths)

traceVars == <<graph, seed, depth, tpc, traceDepth, stack, seen, parseCount, requeued, files>>

VARIABLES
    pkgs,             \* package names of the package graph
    pkgDeps,          \* package -> the packages it depends on
    globalDepsValid,  \* whether the configured global-dependency patterns compile
    file,             \* the queried file: [anchorable, globalMatch, owner]
    mapping,          \* what File::package returned last
    affected          \* what File::affected_packages returned last

mapperVars == <<pkgs, pkgDeps, globalDepsValid, file, mapping, affected>>

VARIABLES
    path,         \* file name of the File whose AST is queried, as a token sequence
    cachedAst,    \* File.ast: TRUE when an ancestor query attached a parsed AST
    readOk,       \* whether the file's contents can be read
    parseOk,      \* whether the parser accepts the contents under the chosen syntax
    syntax,       \* the Syntax parse_file selected last
    parseResult,  \* what parse_file returned last
    astResult     \* what File::ast returned last

parseVars == <<path, cachedAst, readOk, parseOk, syntax, parseResult, astResult>>

VARIABLES
    tasks,        \* task names in displayed order
    prefFile,     \* contents of .turbo/preferences/tui.json
    prefBefore,   \* contents of the file when the last get_selected_task_index
                  \* started; the current contents when another operation came last
    lastOp,       \* the last operation on the preferences
    updResults,   \* result and I/O fault of each update_preference call the last
                  \* get_selected_task_index made
    selIndex      \* what get_selected_task_index returned last

prefVars == <<tasks, prefFile, prefBefore, lastOp, updResults, selIndex>>

vars == <<traceVars, mapperVars, parseVars, prefVars>>

notTraceVars == <<mapperVars, parseVars, prefVars>>

notMapperVars == <<traceVars, parseVars, prefVars>>

notParseVars == <<traceVars, mapperVars, prefVars>>

notPrefVars == <<traceVars, mapperVars, parseVars>>

Unset == <<"Unset">>

TraceIdle ==
    /\ graph = <<>>
    /\ seed = None
    /\ depth = None
    /\ tpc = "off"
    /\ traceDepth = None
    /\ stack = <<>>
    /\ seen = {}
    /\ parseCount = <<>>
    /\ requeued = FALSE
    /\ files = <<>>

MapperIdle ==
    /\ pkgs = {}
    /\ pkgDeps = <<>>
    /\ globalDepsValid = TRUE
    /\ file = <<>>
    /\ mapping = Unset
    /\ affected = Unset

ParseIdle ==
    /\ path = <<>>
    /\ cachedAst = FALSE
    /\ readOk = TRUE
    /\ parseOk = TRUE
    /\ syntax = Unset
    /\ parseResult = Unset
    /\ astResult = Unset

PrefIdle ==
    /\ tasks = <<>>
    /\ prefFile = <<"Absent">>
    /\ prefBefore = <<"Absent">>
    /\ lastOp = "none"
    /\ updResults = <<>>
    /\ selIndex = Unset

ImportGraphs == {g \in [Files -> SUBSET Files] : \A f \in Files : Cardinality(g[f]) <= MaxImports}

\* Faulty variant of DepthArg: a missing bound becomes 0.
DepthArg_DefaultZero(d) == IF d = None THEN Some(0) ELSE d

\* Faulty variant of DepthArg: the bound is not handed over.
DepthArg_Ignored(d) == None

\* tracer.trace(depth): the caller's bound is handed over unchanged.
DepthArg(d) == d

SeedFiles(p) == <<<<p, 0>>>>

\* Faulty variant of RemoveSelf: the file itself stays in the result.
RemoveSelf_NoOp(fs, p) == fs

\* result.files.remove(&self.path)
RemoveSelf(fs, p) == fs \ {p}

\* TraceResult::new: the map's entries sorted by path.
TraceResultNew(order) == SortAscending(order)

\* self.path of the File whose dependencies are traced.
SeedPath == seed[1]

TraceInit ==
    /\ MapperIdle
    /\ ParseIdle
    /\ PrefIdle
    /\ graph \in ImportGraphs
    /\ seed = None
    /\ depth = None
    /\ tpc = "idle"
    /\ traceDepth = None
    /\ stack = <<>>
    /\ seen = {}
    /\ parseCount = [f \in Files |-> 0]
    /\ requeued = FALSE
    /\ files = <<>>

\* dependencies(depth, ..) on the File at some path, up to the call of
\* tracer.trace(depth)
DependenciesBegin ==
    /\ tpc = "idle"
    /\ tpc' = "tracing"
    /\ \E p \in Files, d \in Depths :
          /\ seed' = Some(p)
          /\ depth' = d
          /\ traceDepth' = DepthArg(d)
          /\ stack' = SeedFiles(p)
    /\ UNCHANGED <<graph, seen, parseCount, requeued, files>>
    /\ UNCHANGED notTraceVars

BeyondBound(d) == traceDepth # None /\ d > traceDepth[1]

\* The resolved imports of a parsed file that are queued for expansion: a path
\* that was already visited is not queued again.
Queued(f, visited) == graph[f] \ visited

\* One iteration of the tracer's loop: take a queued file, skip it when it lies
\* beyond the bound or was visited, otherwise parse it and queue its imports.
TraceStep ==
    /\ tpc = "tracing"
    /\ stack # <<>>
    /\ LET top == stack[Len(stack)]
           f == top[1]
           d == top[2]
           rest == SubSeq(stack, 1, Len(stack) - 1)
       IN IF BeyondBound(d) \/ f \in seen
          THEN /\ stack' = rest
               /\ UNCHANGED <<seen, parseCount, requeued>>
          ELSE /\ seen' = seen \cup {f}
               /\ parseCount' = [parseCount EXCEPT ![f] = @ + 1]
               /\ \E order \in Orders(Queued(f, seen')) :
                      stack' = rest \o [i \in 1..Len(order) |-> <<order[i], d + 1>>]
               /\ requeued' = (requeued \/ Queued(f, seen') \cap seen' # {})
    /\ UNCHANGED <<graph, seed, depth, tpc, traceDepth, files>>
    /\ UNCHANGED notTraceVars

\* dependencies, after tracer.trace returned: the tracer's result maps every
\* file it visited; drop the file itself and build the TraceResult.
DependenciesEnd ==
    /\ tpc = "tracing"
    /\ stack = <<>>
    /\ tpc' = "done"
    /\ \E order \in Orders(RemoveSelf(seen, SeedPath)) : files' = TraceResultNew(order)
    /\ UNCHANGED <<graph, seed, depth, traceDepth, stack, seen, parseCount, requeued>>
    /\ UNCHANGED notTraceVars

TraceNext == DependenciesBegin \/ TraceStep \/ DependenciesEnd

TraceSpec == TraceInit /\ [][TraceNext]_vars

FairTraceSpec == TraceInit /\ [][TraceNext]_vars /\ WF_vars(TraceNext)

\* ---------------------------------------------------------------------------
\* Properties of the import trace
\* ---------------------------------------------------------------------------
Imports(S) == UNION {graph[f] : f \in S}

\* The files whose shortest import path from a file of S has length <= k.
RECURSIVE ReachWithin(_, _)
ReachWithin(S, k) == IF k = 0 THEN S ELSE ReachWithin(S \cup Imports(S), k - 1)

Reachable(S) == ReachWithin(S, NumFiles)

\* The seed is reachable from itself through at least one import.
SeedOnCycle == SeedPath \in Reachable(graph[SeedPath])

\* The files reachable from the seed form one import cycle through the seed:
\* each of them imports exactly one file and the seed is reached again.
CycleOfSeed == Reachable({SeedPath})

SeedOnPureCycle == SeedOnCycle /\ \A f \in CycleOfSeed : Cardinality(graph[f]) = 1

\* C1: the file mapping returned by dependencies never contains the seed file,
\* for every import graph and every depth bound (none included), also when the
\* seed is reachable from itself through an import cycle.
C1_SeedExcluded == tpc = "done" => SeedPath \notin Range(files)

C1_Witness ==
    /\ tpc = "done"
    /\ SeedOnCycle
    /\ SeedPath \in seen
    /\ files # <<>>

C2_CycleResult ==
    (tpc = "done" /\ depth = None /\ SeedOnPureCycle) =>
        /\ Range(files) = CycleOfSeed \ {SeedPath}
        /\ Len(files) = Cardinality(CycleOfSeed) - 1
        /\ NoDuplicates(files)

C2_VisitedOnce == (\A f \in Files : parseCount[f] <= 1) /\ ~requeued

\* Work the trace still has to do: every step of the trace lowers it.
WorkLeft == Cardinality(Files \ seen) * (NumFiles + 1) + Len(stack)

TraceMeasure ==
    CASE tpc = "done" -> 0
      [] tpc = "tracing" -> 1 + WorkLeft
      [] OTHER -> 3 + NumFiles * (NumFiles + 1)

C2_NeverStuck == tpc # "done" => ENABLED TraceNext

\* C2: tracing without a depth bound from a seed on an import cycle of N files
\* terminates, the result holds exactly the N-1 other files of the cycle, each
\* once, and no visited path is parsed or queued a second time. Termination:
\* a step is always possible until the result is returned, and every step
\* lowers a measure that is a natural number.
C2_CycleTerminates ==
    /\ [](C2_CycleResult /\ C2_VisitedOnce /\ C2_NeverStuck /\ TraceMeasure >= 0)
    /\ [][TraceMeasure' < TraceMeasure]_vars

\* The same termination as a liveness property of the fair specification.
CycleTraceStarted == IF tpc = "tracing" THEN depth = None /\ SeedOnPureCycle ELSE FALSE

C2_EventuallyDone == CycleTraceStarted ~> (tpc = "done")

C2_Witness ==
    /\ tpc = "done"
    /\ depth = None
    /\ SeedOnPureCycle
    /\ Cardinality(CycleOfSeed) = NumFiles
    /\ Len(files) = NumFiles - 1

\* C3: with max_depth = 0 the mapping is empty, and with max_depth = k it never
\* holds a file whose shortest import path from the seed is longer than k.
C3_DepthBound ==
    (tpc = "done" /\ depth # None) =>
        /\ depth = Some(0) => files = <<>>
        /\ Range(files) \subseteq ReachWithin({SeedPath}, depth[1])

C3_Witness ==
    /\ tpc = "done"
    /\ depth = Some(1)
    /\ files # <<>>
    /\ Reachable({SeedPath}) \ ReachWithin({SeedPath}, 1) # {}

C3_WitnessZero ==
    /\ tpc = "done"
    /\ depth = Some(0)
    /\ graph[SeedPath] \ {SeedPath} # {}

\* ---------------------------------------------------------------------------
\* Change mapper: File::get_package, File::package, File::affected_packages
\* ---------------------------------------------------------------------------
PkgNames == 1..NumPkgs

\* PackageNode: the synthetic root or Workspace(name).
RootNode == <<"Root">>

Workspace(name) == <<"Workspace", name>>

\* PackageNode::as_package_name
AsPackageName(node) == node[2]

Nodes == {RootNode} \cup {Workspace(n) : n \in pkgs}

\* The edges of the package graph: dependent -> dependency; every workspace
\* package also points at the synthetic root.
DependenciesOf(node) ==
    IF node = RootNode THEN {}
    ELSE {RootNode} \cup {Workspace(n) : n \in pkgDeps[AsPackageName(node)]}

RECURSIVE DepClosure(_, _)
DepClosure(S, k) ==
    IF k = 0 THEN S ELSE DepClosure(S \cup UNION {DependenciesOf(n) : n \in S}, k - 1)

\* The nodes a node reaches through at least one dependency edge.
TransitiveDependencies(node) == DepClosure(DependenciesOf(node), NumPkgs + 1)

\* PackageGraph::ancestors: every other node with a dependency path to the
\* given node; the node itself is not among its ancestors (affected_packages
\* adds it).
Ancestors(node) == {m \in Nodes \ {node} : node \in TransitiveDependencies(m)}

\* PackageGraph::len: the number of packages of the graph.
GraphLen == Cardinality(pkgs)

\* PackageGraph::packages: the entries of the package map.
Packages == pkgs

RECURSIVE Closure(_, _, _)
Closure(g, S, k) == IF k = 0 THEN S ELSE Closure(g, S \cup UNION {g[n] : n \in S}, k - 1)

\* The dependency relations a package graph over the given names can hold:
\* any, cycles among several packages included; no package names itself as a
\* dependency.
PackageGraphs(names) == {g \in [names -> SUBSET names] : \A n \in names : n \notin g[n]}

\* The queried file as the change mapper sees it: whether it can be anchored
\* under the repository root, whether its anchored path matches a global
\* dependency pattern, and the package whose directory contains it.
QueriedFiles(names, valid) ==
    {[anchorable |-> FALSE, globalMatch |-> FALSE, owner |-> None]}
        \cup {[anchorable |-> TRUE, globalMatch |-> gm, owner |-> o] :
                 gm \in (IF valid THEN BOOLEAN ELSE {FALSE}),
                 o \in {None} \cup {Some(n) : n \in names}}

MapperInit ==
    /\ TraceIdle
    /\ ParseIdle
    /\ PrefIdle
    /\ pkgs \in (SUBSET PkgNames) \ {{}}
    /\ pkgDeps \in PackageGraphs(pkgs)
    /\ globalDepsValid \in BOOLEAN
    /\ file \in QueriedFiles(pkgs, globalDepsValid)
    /\ mapping = Unset
    /\ affected = Unset

\* PackageDetector::detect_package on an anchored path: a global dependency
\* match wins over package attribution.
DetectPackage ==
    IF file.globalMatch THEN <<"All", "GlobalDepsChanged">>
    ELSE IF file.owner # None THEN <<"Package", file.owner[1]>>
    ELSE <<"None">>

ConstructionError == <<"Err", "InvalidGlob">>

\* Faulty variant of AnchorFailed: the anchor error is propagated.
AnchorFailed_AsError == <<"Err", "NotInRepo">>

\* let Ok(anchored_path) = ... else { return Ok(None) }
AnchorFailed == <<"Ok", <<"None">>>>

\* Faulty variant of MappingAll: the synthetic root is counted too.
MappingAll_CountNodes(reason) == <<"Ok", <<"All", reason, Cardinality(Nodes)>>>>

\* Ok(Some(PackageMapping::All(All { reason, count: pkg_dep_graph().len() })))
MappingAll(reason) == <<"Ok", <<"All", reason, GraphLen>>>>

MappingPackage(name) == <<"Ok", <<"Package", name>>>>

\* File::get_package: Result<Option<PackageMapping>, Error>
GetPackage ==
    IF ~globalDepsValid THEN ConstructionError
    ELSE IF ~file.anchorable THEN AnchorFailed
    ELSE LET package == DetectPackage
         IN CASE package[1] = "All" -> MappingAll(package[2])
              [] package[1] = "Package" -> MappingPackage(package[2])
              [] OTHER -> <<"Ok", <<"None">>>>

\* File::package
Package ==
    /\ mapping' = GetPackage
    /\ UNCHANGED <<pkgs, pkgDeps, globalDepsValid, file, affected>>
    /\ UNCHANGED notMapperVars

\* Faulty variant of AffectedAll: the iteration order is returned as is.
AffectedAll_Unsorted(order) == order

\* packages().map(..).sorted_by(|a, b| a.name.cmp(&b.name)).collect()
AffectedAll(order) == SortAscending(order)

\* Faulty variant of AffectedOf: the package itself is not added.
AffectedOf_WithoutSelf(order, name) == SortAscending([i \in 1..Len(order) |-> AsPackageName(order[i])])

\* ancestors(&node).iter().map(..).chain(once(package)).sorted_by(..).collect()
AffectedOf(order, name) ==
    SortAscending([i \in 1..Len(order) |-> AsPackageName(order[i])] \o <<name>>)

\* Faulty variant of AffectedNone: no mapping is treated like All.
AffectedNone_Everything == <<"Ok", SortAscending(CHOOSE order \in Orders(Packages) : TRUE)>>

\* Ok(None) => Ok(Array::new())
AffectedNone == <<"Ok", <<>>>>

\* File::affected_packages
AffectedPackages ==
    /\ LET got == GetPackage
       IN IF got[1] = "Err" THEN affected' = got
          ELSE CASE got[2][1] = "All" ->
                      \E order \in Orders(Packages) : affected' = <<"Ok", AffectedAll(order)>>
                 [] got[2][1] = "Package" ->
                      \E order \in Orders(Ancestors(Workspace(got[2][2]))) :
                          affected' = <<"Ok", AffectedOf(order, got[2][2])>>
                 [] OTHER -> affected' = AffectedNone
    /\ UNCHANGED <<pkgs, pkgDeps, globalDepsValid, file, mapping>>
    /\ UNCHANGED notMapperVars

MapperNext == Package \/ AffectedPackages

MapperSpec == MapperInit /\ [][MapperNext]_vars

\* ---------------------------------------------------------------------------
\* Properties of the change mapper
\* ---------------------------------------------------------------------------
\* The packages with a dependency path to the package `name`, computed on the
\* dependency relation itself.
Dependents(name) == {q \in pkgs \ {name} : name \in Closure(pkgDeps, pkgDeps[q], NumPkgs)}

ClassifiesAsPackage == GetPackage[1] = "Ok" /\ GetPackage[2][1] = "Package"

\* C4: for a file that classifies as Package(P), affected_packages returns P
\* and every package with a dependency path to P, sorted ascending, no name
\* twice, also when a dependent reaches P through several paths; a package
\* without dependents yields just itself.
C4_AffectedOfPackage ==
    (affected # Unset /\ ClassifiesAsPackage) =>
        LET P == GetPackage[2][2]
        IN /\ affected[1] = "Ok"
           /\ Range(affected[2]) = {P} \cup Dependents(P)
           /\ IsSorted(affected[2])
           /\ NoDuplicates(affected[2])
           /\ Dependents(P) = {} => affected[2] = <<P>>

C4_Witness ==
    /\ affected # Unset
    /\ ClassifiesAsPackage
    /\ LET P == GetPackage[2][2]
       IN /\ Len(affected[2]) = 3
          /\ \E q, r \in pkgs : q # r /\ {P, r} \subseteq pkgDeps[q] /\ P \in pkgDeps[r]

\* C5: a file matching a global-dependency pattern classifies as All with
\* count = the number of packages of the graph, and affected_packages returns
\* every package name, sorted ascending, once each.
C5_GlobalMatch ==
    (globalDepsValid /\ file.anchorable /\ file.globalMatch) =>
        /\ mapping # Unset =>
              /\ mapping[1] = "Ok"
              /\ mapping[2][1] = "All"
              /\ mapping[2][3] = Cardinality(pkgs)
        /\ affected # Unset =>
              /\ affected[1] = "Ok"
              /\ Range(affected[2]) = pkgs
              /\ IsSorted(affected[2])
              /\ NoDuplicates(affected[2])

C5_Witness ==
    /\ file.anchorable /\ file.globalMatch /\ file.owner # None
    /\ mapping # Unset
    /\ affected # Unset
    /\ Cardinality(pkgs) >= 2

\* C6 as stated: a file that cannot be anchored classifies as None, never as
\* an error, and affected_packages returns the empty sequence.
C6_Original ==
    ~file.anchorable =>
        /\ mapping # Unset => mapping = <<"Ok", <<"None">>>>
        /\ affected # Unset => affected = <<"Ok", <<>>>>

\* C6 amended: when the change mapper can be constructed, a file that cannot
\* be anchored classifies as None and affected_packages is empty; when the
\* construction fails, both calls return the construction error.
C6_Unanchorable ==
    ~file.anchorable =>
        /\ mapping # Unset =>
              mapping = (IF globalDepsValid THEN <<"Ok", <<"None">>>> ELSE ConstructionError)
        /\ affected # Unset =>
              affected = (IF globalDepsValid THEN <<"Ok", <<>>>> ELSE ConstructionError)

C6_Witness ==
    /\ ~file.anchorable
    /\ globalDepsValid
    /\ mapping = <<"Ok", <<"None">>>>
    /\ affected = <<"Ok", <<>>>>

\* C7: a classify call fails only when the construction of the change mapper
\* fails; otherwise it returns a PackageMapping value: All, Package or None.
C7_ClassifyNeverFails ==
    mapping # Unset =>
        /\ mapping[1] \in {"Ok", "Err"}
        /\ mapping[1] = "Err" <=> ~globalDepsValid
        /\ mapping[1] = "Err" => mapping = ConstructionError
        /\ mapping[1] = "Ok" => mapping[2][1] \in {"All", "Package", "None"}

C7_Witness ==
    /\ ~file.anchorable
    /\ mapping # Unset
    /\ mapping[1] = "Ok"

C7_WitnessConstruction == mapping = ConstructionError

\* ---------------------------------------------------------------------------
\* Parsing: File::with_ast, File::parse_file, File::ast
\* ---------------------------------------------------------------------------
\* A file name is a sequence of tokens; "." is the dot character, the other
\* tokens are dot-free pieces of text.
NameTokens == {"a", ".", "ts", "tsx", "js", "jsx"}

FileNames ==
    (UNION {[1..n -> NameTokens] : n \in 1..MaxNameLen}) \ {<<".">>, <<".", ".">>}

DotPositions(name) == {i \in 1..Len(name) : name[i] = "."}

LastDot(name) == CHOOSE i \in DotPositions(name) : \A j \in DotPositions(name) : j <= i

\* Path::extension: the text after the last dot of the file name; none when
\* the name has no dot or only a leading one.
Extension(name) ==
    IF DotPositions(name) = {} THEN None
    ELSE IF LastDot(name) = 1 THEN None
    ELSE Some(SubSeq(name, LastDot(name) + 1, Len(name)))

\* ends_with: the path's text ends with the given text.
EndsWith(name, suffix) ==
    /\ Len(name) >= Len(suffix)
    /\ SubSeq(name, Len(name) - Len(suffix) + 1, Len(name)) = suffix

Ext(text) == Some(<<text>>)

\* Syntax::Typescript(TsSyntax { tsx, decorators: true, .. })
Typescript(tsx) == <<"Typescript", tsx, TRUE>>

\* Syntax::Es(EsSyntax { jsx, .. }): decorators keep their default, off.
Es(jsx) == <<"Es", jsx, FALSE>>

\* The dialect parse_file selects for a path.
SelectSyntax(name) ==
    IF Extension(name) = Ext("ts") \/ Extension(name) = Ext("tsx")
    THEN Typescript(Extension(name) = Ext("tsx"))
    ELSE Es(EndsWith(name, <<".", "jsx">>))

\* File::parse_file: Result<Module, Error>
ParseFile ==
    IF ~readOk THEN <<"Err", "Io">>
    ELSE IF ~parseOk THEN <<"Err", "Parse">>
    ELSE <<"Ok", "Module">>

ParseInit ==
    /\ TraceIdle
    /\ MapperIdle
    /\ PrefIdle
    /\ path \in FileNames
    /\ cachedAst = FALSE
    /\ readOk \in BOOLEAN
    /\ parseOk \in BOOLEAN
    /\ syntax = Unset
    /\ parseResult = Unset
    /\ astResult = Unset

\* File::with_ast(ast): attaches the AST an ancestor query parsed, if any.
WithAst ==
    /\ \E ast \in BOOLEAN : cachedAst' = ast
    /\ UNCHANGED <<path, readOk, parseOk, syntax, parseResult, astResult>>
    /\ UNCHANGED notParseVars

\* File::ast: the attached AST, or else parse_file().ok()? serialised.
Ast ==
    /\ IF cachedAst
       THEN /\ astResult' = <<"Some", "Module">>
            /\ UNCHANGED <<syntax, parseResult>>
       ELSE /\ parseResult' = ParseFile
            /\ syntax' = (IF readOk THEN SelectSyntax(path) ELSE syntax)
            /\ astResult' = (IF ParseFile[1] = "Ok" THEN <<"Some", "Module">> ELSE <<"None">>)
    /\ UNCHANGED <<path, cachedAst, readOk, parseOk>>
    /\ UNCHANGED notParseVars

ParseNext == WithAst \/ Ast

ParseSpec == ParseInit /\ [][ParseNext]_vars

\* ---------------------------------------------------------------------------
\* Properties of parsing
\* ---------------------------------------------------------------------------
\* C8: a parse failure of a file is surfaced to the caller as syntax errors
\* recorded against that file, never silently dropped.
C8_ParseFailureSurfaced ==
    (astResult # Unset /\ parseResult = <<"Err", "Parse">>) => astResult[1] = "Err"

\* C9: TypeScript with decorators exactly for the extensions ts and tsx, the
\* tsx flag only for tsx; every other file ECMAScript, with jsx enabled
\* exactly when the file has the jsx extension.
C9_DialectSelection ==
    syntax # Unset =>
        /\ syntax[1] = "Typescript" <=> Extension(path) \in {Ext("ts"), Ext("tsx")}
        /\ syntax[1] = "Typescript" => (syntax[3] /\ (syntax[2] <=> Extension(path) = Ext("tsx")))
        /\ syntax[1] # "Typescript" =>
              (syntax[1] = "Es" /\ (syntax[2] <=> Extension(path) = Ext("jsx")))

\* ---------------------------------------------------------------------------
\* TUI preferences: read_json, update_preference, get_selected_task_index
\* ---------------------------------------------------------------------------
\* A text is a sequence of characters; task names are never empty.
EmptyText == <<>>

TaskName(i) == [j \in 1..i |-> "t"]

TaskNames == {TaskName(i) : i \in 1..NumTasks}

\* TasksByStatus::task_names_in_displayed_order: any tasks, each once.
DisplayedOrders == UNION {Orders(S) : S \in SUBSET TaskNames}

Keys == {"is_task_list_visible", "active_task", "is_pinned_task_selection"}

JAbsent == <<"Absent">>

JNull == <<"Null">>

JBool(b) == <<"Bool", b>>

JStr(t) == <<"Str", t>>

JNum == <<"Num">>

\* The JSON values a key of the preferences object may hold; JAbsent is a
\* missing key.
JsonValues ==
    {JAbsent, JNull, JNum} \cup {JBool(b) : b \in BOOLEAN}
        \cup {JStr(t) : t \in {EmptyText} \cup TaskNames}

EmptyObject == [k \in Keys |-> JAbsent]

JObject(obj) == <<"Json", <<"Object", obj>>>>

\* The preferences file: missing, not parseable as JSON (truncated or
\* garbled), or JSON: null, a non-object value, or an object.
PrefFiles ==
    {<<"Absent">>, <<"Garbage">>, <<"Json", JNull>>, <<"Json", JNum>>}
        \cup {JObject(obj) : obj \in [Keys -> JsonValues]}

IsObject(f) == f[1] = "Json" /\ f[2][1] = "Object"

\* The raw JSON value the file holds for a key.
RawField(f, key) == IF IsObject(f) THEN f[2][2][key] ELSE JAbsent

\* impl Default for Preferences
DefaultPreferences ==
    [is_task_list_visible |-> Some(TRUE),
     active_task |-> None,
     is_pinned_task_selection |-> Some(FALSE)]

\* Whether a raw value deserialises into the Option field of its key.
Decodes(key, v) ==
    \/ v \in {JAbsent, JNull}
    \/ key = "active_task" /\ v[1] = "Str"
    \/ key # "active_task" /\ v[1] = "Bool"

Decoded(v) == IF v \in {JAbsent, JNull} THEN None ELSE Some(v[2])

\* read_json: the file deserialised into Preferences, the default when it
\* cannot be opened or parsed.
ReadJson(f) ==
    IF IsObject(f) /\ \A k \in Keys : Decodes(k, RawField(f, k))
    THEN [k \in Keys |-> Decoded(RawField(f, k))]
    ELSE DefaultPreferences

\* read_pinned_task_state
ReadPinnedTaskState(f) ==
    LET v == ReadJson(f).is_pinned_task_selection IN IF v = None THEN FALSE ELSE v[1]

\* read_task_list_visibility
ReadTaskListVisibility(f) ==
    LET v == ReadJson(f).is_task_list_visible IN IF v = None THEN TRUE ELSE v[1]

\* Faulty variant of FieldKey: two keys are mixed up.
FieldKey_Swapped(field) ==
    CASE field = "IsTaskListVisible" -> "is_task_list_visible"
      [] field = "ActiveTask" -> "is_pinned_task_selection"
      [] field = "PinnedTaskSelection" -> "active_task"

\* match field { .. }: the JSON key a PreferenceFields variant writes.
FieldKey(field) ==
    CASE field = "IsTaskListVisible" -> "is_task_list_visible"
      [] field = "ActiveTask" -> "active_task"
      [] field = "PinnedTaskSelection" -> "is_pinned_task_selection"

\* Where an update_preference call meets an I/O failure, if anywhere:
\* creating the directory or reading the file, creating the file, writing it.
IoFaults == {"ok", "early", "create", "write"}

\* update_preference on file contents f: <<result, contents afterwards>>.
UpdatePreference(f, field, newValue, io) ==
    IF io = "early" THEN <<"Err", f>>
    ELSE IF f = <<"Garbage">> THEN <<"Err", f>>
    ELSE LET json == IF f = <<"Absent">> THEN <<"Object", EmptyObject>> ELSE f[2]
         IN IF json[1] \notin {"Object", "Null"} THEN <<"Panic", f>>
            ELSE LET obj == IF json = JNull THEN EmptyObject ELSE json[2]
                     updated == [obj EXCEPT ![FieldKey(field)] = newValue]
                 IN CASE io = "create" -> <<"Err", f>>
                      [] io = "write" -> <<"Err", <<"Garbage">>>>
                      [] OTHER -> <<"Ok", JObject(updated)>>

\* The values callers write for each field.
FieldValues(field) ==
    IF field = "ActiveTask" THEN {JStr(t) : t \in {EmptyText} \cup TaskNames}
    ELSE {JBool(b) : b \in BOOLEAN}

PrefInit ==
    /\ TraceIdle
    /\ MapperIdle
    /\ ParseIdle
    /\ tasks \in DisplayedOrders
    /\ prefFile \in PrefFiles
    /\ prefBefore = prefFile
    /\ lastOp = "none"
    /\ updResults = <<>>
    /\ selIndex = Unset

\* A caller of Preferences::update_preference other than
\* get_selected_task_index.
UpdatePreferenceCall ==
    /\ \E field \in {"IsTaskListVisible", "ActiveTask", "PinnedTaskSelection"} :
         \E newValue \in FieldValues(field), io \in IoFaults :
            LET r == UpdatePreference(prefFile, field, newValue, io)
            IN /\ prefFile' = r[2]
               /\ prefBefore' = r[2]
    /\ updResults' = <<>>
    /\ lastOp' = "update"
    /\ UNCHANGED <<tasks, selIndex>>
    /\ UNCHANGED notPrefVars

\* active_task.unwrap_or("".to_string())
SelectedTaskName(f) ==
    LET v == ReadJson(f).active_task IN IF v = None THEN EmptyText ELSE v[1]

\* Iterator::position: zero-based index of the first match, if any.
Position(s, x) ==
    IF x \in Range(s) THEN Some((CHOOSE i \in 1..Len(s) : s[i] = x /\ \A j \in 1..(i - 1) : s[j] # x) - 1)
    ELSE None

\* Preferences::get_selected_task_index
GetSelectedTaskIndex ==
    /\ LET index == Position(tasks, SelectedTaskName(prefFile))
       IN IF index # None
          THEN /\ selIndex' = <<"Ok", index[1]>>
               /\ updResults' = <<>>
               /\ UNCHANGED prefFile
          ELSE \E io1, io2 \in IoFaults :
                 LET r1 == UpdatePreference(prefFile, "PinnedTaskSelection", JBool(FALSE), io1)
                     r2 == UpdatePreference(r1[2], "ActiveTask", JStr(EmptyText), io2)
                 IN IF r1[1] = "Panic"
                    THEN /\ selIndex' = <<"Panic">>
                         /\ updResults' = <<<<r1[1], io1>>>>
                         /\ prefFile' = r1[2]
                    ELSE /\ selIndex' = (IF r2[1] = "Panic" THEN <<"Panic">> ELSE <<"Ok", 0>>)
                         /\ updResults' = <<<<r1[1], io1>>, <<r2[1], io2>>>>
                         /\ prefFile' = r2[2]
    /\ prefBefore' = prefFile
    /\ lastOp' = "get"
    /\ UNCHANGED tasks
    /\ UNCHANGED notPrefVars

PrefNext == UpdatePreferenceCall \/ GetSelectedTaskIndex

PrefSpec == PrefInit /\ [][PrefNext]_vars

\* ---------------------------------------------------------------------------
\* Properties of the preferences
\* ---------------------------------------------------------------------------
\* The persisted task was in the displayed order when the last
\* get_selected_task_index started.
TaskWasThere == SelectedTaskName(prefBefore) \in Range(tasks)

ResetPersisted ==
    /\ RawField(prefFile, "is_pinned_task_selection") = JBool(FALSE)
    /\ RawField(prefFile, "active_task") = JStr(EmptyText)
    /\ RawField(prefFile, "is_task_list_visible") = RawField(prefBefore, "is_task_list_visible")

FoundAndUntouched ==
    /\ selIndex[1] = "Ok"
    /\ tasks[selIndex[2] + 1] = SelectedTaskName(prefBefore)
    /\ prefFile = prefBefore
    /\ updResults = <<>>

\* C10 as stated: the position of the persisted task and no write when it is
\* displayed; otherwise 0 is returned and the file then holds
\* is_pinned_task_selection = false and active_task = "", with
\* is_task_list_visible as before.
C10_Original ==
    lastOp = "get" =>
        IF TaskWasThere THEN FoundAndUntouched
        ELSE selIndex = <<"Ok", 0>> /\ ResetPersisted

Results(rs) == [i \in 1..Len(rs) |-> rs[i][1]]

Faults(rs) == {rs[i][2] : i \in 1..Len(rs)}

\* update_preference can rewrite the file: it is missing, or holds a JSON
\* object or null.
Rewritable(f) == f = <<"Absent">> \/ (f[1] = "Json" /\ f[2][1] \in {"Object", "Null"})

\* C10 amended: the position of the persisted task and no write when it is
\* displayed. Otherwise two update_preference calls are made and their errors
\* ignored: both succeed when the file is missing or holds a JSON object or
\* null and no I/O step fails, and when both succeed 0 is returned and the file
\* holds is_pinned_task_selection = false, active_task = "" and the
\* is_task_list_visible it held before; when the file is not parseable the
\* updates fail, 0 is returned and the file stays as it was; when it holds
\* another JSON value an update that gets to the key assignment panics.
C10_SelectedTaskIndex ==
    lastOp = "get" =>
        IF TaskWasThere THEN FoundAndUntouched
        ELSE /\ (Rewritable(prefBefore) /\ Faults(updResults) = {"ok"}) =>
                    Results(updResults) = <<"Ok", "Ok">>
             /\ Results(updResults) = <<"Ok", "Ok">> =>
                    (selIndex = <<"Ok", 0>> /\ ResetPersisted)
             /\ prefBefore = <<"Garbage">> =>
                    /\ Results(updResults) = <<"Err", "Err">>
                    /\ selIndex = <<"Ok", 0>>
                    /\ prefFile = prefBefore
             /\ "Panic" \notin Range(Results(updResults)) <=> selIndex = <<"Ok", 0>>
             /\ "Panic" \in Range(Results(updResults)) =>
                    (selIndex = <<"Panic">> /\ ~Rewritable(prefBefore) /\ prefFile = prefBefore)

\* The persisted task is gone from a non-empty display and both updates went
\* through on a file that held other keys.
C10_Witness ==
    /\ lastOp = "get"
    /\ ~TaskWasThere
    /\ tasks # <<>>
    /\ RawField(prefBefore, "active_task") \in {JStr(t) : t \in TaskNames}
    /\ RawField(prefBefore, "is_pinned_task_selection") = JBool(TRUE)
    /\ RawField(prefBefore, "is_task_list_visible") = JBool(FALSE)
    /\ Results(updResults) = <<"Ok", "Ok">>
    /\ selIndex = <<"Ok", 0>>

C10_WitnessFound ==
    /\ lastOp = "get"
    /\ TaskWasThere
    /\ selIndex = <<"Ok", 1>>

====
